---- MODULE Spec2Model ----
(***************************************************************************)
(* Model of the Arduino utility scripts:                                   *)
(*   arduino_detection.py  ArduinoFlespiMQTT (capture, classify, publish)  *)
(*   arduino_reader.py     ArduinoSerialReader (capture to a CSV file)     *)
(*   arduino_test.py       CSVtoImageConverter (CSV to raster)             *)
(*   intentitobb.py        AgroDrone telemetry simulator                   *)
(* Text is modelled as sequences of one-character strings, so that the     *)
(* substring tests, split, strip and int() are computed, not assumed.      *)
(***************************************************************************)
EXTENDS Integers, Sequences, FiniteSets, TLC

VARIABLES
    pc,                    \* position of the running script
    is_connected_mqtt,     \* ArduinoFlespiMQTT.is_connected_mqtt
    is_connected_arduino,  \* ArduinoFlespiMQTT.is_connected_arduino
    total_envios,          \* ArduinoFlespiMQTT.total_envios
    envios_humo,           \* ArduinoFlespiMQTT.envios_humo
    envios_normal,         \* ArduinoFlespiMQTT.envios_normal
    errores,               \* ArduinoFlespiMQTT.errores
    contador,              \* iniciar_monitoreo: contador
    publicados,            \* messages handed to mqtt_client.publish
    result,                \* enviar_a_flespi: what mqtt_client.publish did in the last call
    loop_activo,           \* the MQTT network loop (loop_start .. loop_stop) is running
    puerto_abierto,        \* the serial port is open
    leidas,                \* the non-empty lines leer_linea has returned so far
    capturando,            \* capture loop: capturando
    datos_csv,             \* capture loop: datos_csv
    modo,                  \* which capture runs: capturar_datos_csv or capturar_imagen_csv
    salida,                \* how the capture loop was left
    retorno,               \* the value the operation under study returned
    lineas,                \* the text lines given to the CSV extractors
    datos_imagen,          \* the flat pixel array given to generar_anomalia
    anomalia,              \* the verdict generar_anomalia returned
    veredictos,            \* every <<array, verdict>> pair a run has produced
    configurado,           \* <<ancho, alto>> the converter was constructed with
    ancho,                 \* CSVtoImageConverter.ancho
    alto,                  \* CSVtoImageConverter.alto
    datos,                 \* the flat array given to array_a_imagen
    escalar,               \* array_a_imagen: escalar
    ajuste,                \* array_a_imagen: the dimension search was run
    imagen_array,          \* array_a_imagen: imagen_array, the reshaped grid
    connected,             \* intentitobb: connected
    reading_count,         \* intentitobb: reading_count
    anomaly_type,          \* publish_telemetry: anomaly_type of the last reading
    gps_loss_count,        \* intentitobb: gps_loss_count
    flight_time            \* intentitobb: flight_time, in seconds

vars == <<pc, is_connected_mqtt, is_connected_arduino, total_envios, envios_humo,
          envios_normal, errores, contador, publicados, result, loop_activo,
          puerto_abierto, leidas, capturando,
          datos_csv, modo, salida, retorno, lineas, datos_imagen, anomalia,
          veredictos, configurado, ancho, alto, datos, escalar, ajuste,
          imagen_array, connected, reading_count, anomaly_type, gps_loss_count,
          flight_time>>

varsMqtt == <<is_connected_mqtt, is_connected_arduino, total_envios, envios_humo,
              envios_normal, errores, contador, publicados, result, loop_activo,
              puerto_abierto>>
varsCaptura == <<leidas, capturando, datos_csv, modo, salida>>
varsImagen == <<configurado, ancho, alto, datos, escalar, ajuste, imagen_array>>
varsDron == <<connected, reading_count, anomaly_type, gps_loss_count, flight_time>>

----------------------------------------------------------------------------
(* Python values.  A call either returns a value, returns None or raises.  *)

Ok(v) == [tipo |-> "ok", val |-> v]
None == [tipo |-> "None", val |-> <<>>]
Raise(e) == [tipo |-> e, val |-> <<>>]

RECURSIVE Sum(_)
Sum(s) == IF s = <<>> THEN 0 ELSE Head(s) + Sum(Tail(s))

RECURSIVE Min(_)
Min(s) == IF Len(s) = 1 THEN s[1]
          ELSE LET m == Min(Tail(s)) IN IF s[1] < m THEN s[1] ELSE m

RECURSIVE Max(_)
Max(s) == IF Len(s) = 1 THEN s[1]
          ELSE LET m == Max(Tail(s)) IN IF s[1] > m THEN s[1] ELSE m

----------------------------------------------------------------------------
(* generar_anomalia.  brillo_promedio = sum/len is a true division; with   *)
(* integer samples sum/len < k is exactly sum < k*len, which is how the    *)
(* comparison is computed here.                                            *)

PromedioMenor(datos_imagen_, k) == Sum(datos_imagen_) < k * Len(datos_imagen_)

generar_anomalia_sin_vacio(datos_imagen_) ==
    IF Len(datos_imagen_) = 0 THEN Raise("ZeroDivisionError")
    ELSE LET rango == Max(datos_imagen_) - Min(datos_imagen_) IN
         IF PromedioMenor(datos_imagen_, 60) /\ rango < 25 THEN Ok("humo")
         ELSE IF PromedioMenor(datos_imagen_, 80) /\ rango < 20 THEN Ok("humo")
         ELSE Ok("normal")

generar_anomalia_no_estricto(datos_imagen_) ==
    IF datos_imagen_ = <<>> THEN Ok("normal")
    ELSE LET rango == Max(datos_imagen_) - Min(datos_imagen_) IN
         IF Sum(datos_imagen_) <= 60 * Len(datos_imagen_) /\ rango <= 25 THEN Ok("humo")
         ELSE IF Sum(datos_imagen_) <= 80 * Len(datos_imagen_) /\ rango <= 20 THEN Ok("humo")
         ELSE Ok("normal")

generar_anomalia_con_estado(datos_imagen_) ==
    IF datos_imagen_ = <<>> THEN Ok("normal")
    ELSE IF (total_envios + errores) % 3 = 2 THEN Ok("humo")
    ELSE Ok("normal")

generar_anomalia(datos_imagen_) ==
    IF datos_imagen_ = <<>> THEN Ok("normal")
    ELSE LET rango == Max(datos_imagen_) - Min(datos_imagen_) IN
         IF PromedioMenor(datos_imagen_, 60) /\ rango < 25 THEN Ok("humo")
         ELSE IF PromedioMenor(datos_imagen_, 80) /\ rango < 20 THEN Ok("humo")
         ELSE Ok("normal")

----------------------------------------------------------------------------
(* Text: a str is a sequence of one-character strings.                     *)

Espacios == {" ", "\t", "\r", "\n"}
Digitos == {"0", "1", "2", "3", "4", "5", "6", "7", "8", "9"}

ValorDigito(c) ==
    CASE c = "0" -> 0 [] c = "1" -> 1 [] c = "2" -> 2 [] c = "3" -> 3
      [] c = "4" -> 4 [] c = "5" -> 5 [] c = "6" -> 6 [] c = "7" -> 7
      [] c = "8" -> 8 [] c = "9" -> 9

\* sub in s
Contiene(sub, s) ==
    \E i \in 1..(Len(s) - Len(sub) + 1) : SubSeq(s, i, i + Len(sub) - 1) = sub

\* s.startswith(pre)
StartsWith(s, pre) == Len(s) >= Len(pre) /\ SubSeq(s, 1, Len(pre)) = pre

RECURSIVE LStrip(_)
LStrip(s) == IF s # <<>> /\ Head(s) \in Espacios THEN LStrip(Tail(s)) ELSE s

RECURSIVE RStrip(_)
RStrip(s) == IF s # <<>> /\ s[Len(s)] \in Espacios
             THEN RStrip(SubSeq(s, 1, Len(s) - 1)) ELSE s

\* s.strip()
Strip(s) == RStrip(LStrip(s))

\* s.split(sep) for a one-character sep: always at least one field
RECURSIVE Split(_, _)
Split(s, sep) ==
    IF \A i \in 1..Len(s) : s[i] # sep THEN <<s>>
    ELSE LET i == CHOOSE j \in 1..Len(s) :
                      s[j] = sep /\ \A k \in 1..(j - 1) : s[k] # sep
         IN <<SubSeq(s, 1, i - 1)>> \o Split(SubSeq(s, i + 1, Len(s)), sep)

RECURSIVE ValorDecimal(_, _)
ValorDecimal(s, acc) ==
    IF s = <<>> THEN acc
    ELSE IF Head(s) = "_" THEN ValorDecimal(Tail(s), acc)
    ELSE ValorDecimal(Tail(s), 10 * acc + ValorDigito(Head(s)))

\* int(s): surrounding whitespace, one optional sign, decimal digits with single
\* underscores between digits; anything else raises ValueError.
int(s) ==
    LET t == Strip(s)
        signo == t # <<>> /\ t[1] \in {"+", "-"}
        cuerpo == IF signo THEN Tail(t) ELSE t
        valido == /\ cuerpo # <<>>
                  /\ \A i \in 1..Len(cuerpo) : cuerpo[i] \in Digitos \cup {"_"}
                  /\ cuerpo[1] # "_"
                  /\ cuerpo[Len(cuerpo)] # "_"
                  /\ \A i \in 1..(Len(cuerpo) - 1) :
                         ~(cuerpo[i] = "_" /\ cuerpo[i + 1] = "_")
    IN IF ~valido THEN Raise("ValueError")
       ELSE IF signo /\ t[1] = "-" THEN Ok(0 - ValorDecimal(cuerpo, 0))
       ELSE Ok(ValorDecimal(cuerpo, 0))

----------------------------------------------------------------------------
(* convertir_csv_a_array: the comprehension of one line, then the loop.    *)

\* [int(val.strip()) for val in campos if val.strip()], from field i on
RECURSIVE FilaDesde(_, _, _)
FilaDesde(campos, i, fila) ==
    IF i > Len(campos) THEN Ok(fila)
    ELSE IF Strip(campos[i]) = <<>> THEN FilaDesde(campos, i + 1, fila)
    ELSE LET v == int(Strip(campos[i])) IN
         IF v.tipo # "ok" THEN v
         ELSE FilaDesde(campos, i + 1, Append(fila, v.val))

RECURSIVE ConvertirDesde(_, _, _)
ConvertirDesde(datos_csv_, i, valores) ==
    IF i > Len(datos_csv_) THEN Ok(valores)
    ELSE LET fila == FilaDesde(Split(datos_csv_[i], ","), 1, <<>>) IN
         IF fila.tipo # "ok" THEN fila
         ELSE ConvertirDesde(datos_csv_, i + 1, valores \o fila.val)

\* a variant that keeps only the last row (valores = fila instead of extend)
RECURSIVE ConvertirUltima(_, _, _)
ConvertirUltima(datos_csv_, i, valores) ==
    IF i > Len(datos_csv_) THEN Ok(valores)
    ELSE LET fila == FilaDesde(Split(datos_csv_[i], ","), 1, <<>>) IN
         IF fila.tipo # "ok" THEN fila
         ELSE ConvertirUltima(datos_csv_, i + 1, fila.val)

convertir_csv_a_array_ultima(datos_csv_) == ConvertirUltima(datos_csv_, 1, <<>>)

\* a variant that skips a malformed token instead of raising
RECURSIVE FilaTolerante(_, _, _)
FilaTolerante(campos, i, fila) ==
    IF i > Len(campos) THEN Ok(fila)
    ELSE LET v == int(Strip(campos[i])) IN
         IF v.tipo # "ok" THEN FilaTolerante(campos, i + 1, fila)
         ELSE FilaTolerante(campos, i + 1, Append(fila, v.val))

RECURSIVE ConvertirTolerante(_, _, _)
ConvertirTolerante(datos_csv_, i, valores) ==
    IF i > Len(datos_csv_) THEN Ok(valores)
    ELSE ConvertirTolerante(datos_csv_, i + 1,
             valores \o FilaTolerante(Split(datos_csv_[i], ","), 1, <<>>).val)

convertir_csv_a_array_tolerante(datos_csv_) == ConvertirTolerante(datos_csv_, 1, <<>>)

convertir_csv_a_array(datos_csv_) == ConvertirDesde(datos_csv_, 1, <<>>)

----------------------------------------------------------------------------
(* csv_a_array.  csv.reader gives no fields for an empty line and the      *)
(* comma-separated fields of any other (the texts here hold no quotes).    *)

CsvReader(linea) == IF linea = <<>> THEN <<>> ELSE Split(linea, ",")

\* [int(val) for val in linea if val.strip()]
RECURSIVE FilaCsvDesde(_, _, _)
FilaCsvDesde(campos, i, fila) ==
    IF i > Len(campos) THEN Ok(fila)
    ELSE IF Strip(campos[i]) = <<>> THEN FilaCsvDesde(campos, i + 1, fila)
    ELSE LET v == int(campos[i]) IN
         IF v.tipo # "ok" THEN v
         ELSE FilaCsvDesde(campos, i + 1, Append(fila, v.val))

RECURSIVE LeerCsvDesde(_, _, _)
LeerCsvDesde(archivo, i, datos_) ==
    IF i > Len(archivo) THEN Ok(datos_)
    ELSE LET linea == CsvReader(archivo[i]) IN
         IF linea = <<>> \/ StartsWith(linea[1], <<"#">>)
         THEN LeerCsvDesde(archivo, i + 1, datos_)
         ELSE LET fila == FilaCsvDesde(linea, 1, <<>>) IN
              IF fila.tipo # "ok" THEN fila
              ELSE LeerCsvDesde(archivo, i + 1, datos_ \o fila.val)

\* np.array(datos, dtype=np.uint8): a value outside 0..255 wraps modulo 256 or
\* raises OverflowError, depending on the numpy installed.
Uint8(datos_) == [i \in 1..Len(datos_) |-> datos_[i] % 256]

\* the values csv_a_array can return; any exception becomes None
csv_a_array(archivo) ==
    LET r == LeerCsvDesde(archivo, 1, <<>>) IN
    IF r.tipo # "ok" THEN {None}
    ELSE IF \A i \in 1..Len(r.val) : r.val[i] \in 0..255 THEN {Ok(r.val)}
    ELSE {Ok(Uint8(r.val)), None}

----------------------------------------------------------------------------
(* The capture loop of capturar_datos_csv and capturar_imagen_csv.         *)

INICIO_DATOS_CSV == <<"I","N","I","C","I","O"," ","D","A","T","O","S"," ","C","S","V">>
TRES_IGUALES == <<"=","=","=">>
FIN_DATOS_CSV == <<"F","I","N"," ","D","A","T","O","S"," ","C","S","V">>
COPIA_ESTOS_DATOS == <<"C","o","p","i","a"," ","e","s","t","o","s"," ","d","a","t","o","s">>

\* "INICIO DATOS CSV" in linea or "===" in linea
EsInicio(linea) == Contiene(INICIO_DATOS_CSV, linea) \/ Contiene(TRES_IGUALES, linea)

\* "FIN DATOS CSV" in linea or "Copia estos datos" in linea
EsFin(linea) == Contiene(FIN_DATOS_CSV, linea) \/ Contiene(COPIA_ESTOS_DATOS, linea)

\* a variant that accepts data lines before the start marker
EsDatoSinInicio(capturando_, linea) ==
    Contiene(<<",">>, linea) /\ ~StartsWith(linea, <<"#">>)

\* capturando and ',' in linea and not linea.startswith('#')
EsDato(capturando_, linea) ==
    capturando_ /\ Contiene(<<",">>, linea) /\ ~StartsWith(linea, <<"#">>)

\* One pass of the loop body over a non-empty line: the new capturando, the new
\* datos_csv and whether the loop is left (break).
ProcesarLinea(capturando_, datos_csv_, linea) ==
    IF EsInicio(linea)
    THEN [capturando |-> TRUE, datos_csv |-> datos_csv_, fin |-> FALSE]
    ELSE IF EsFin(linea)
    THEN [capturando |-> capturando_, datos_csv |-> datos_csv_, fin |-> TRUE]
    ELSE IF EsDato(capturando_, linea)
    THEN [capturando |-> capturando_, datos_csv |-> Append(datos_csv_, linea), fin |-> FALSE]
    ELSE [capturando |-> capturando_, datos_csv |-> datos_csv_, fin |-> FALSE]

\* if datos_csv: return datos_csv (or the file written from it) else: return None
RetornoCaptura(datos_csv_) == IF datos_csv_ # <<>> THEN Ok(datos_csv_) ELSE None

----------------------------------------------------------------------------
(* array_a_imagen.  An image is its width, its height and its rows of      *)
(* pixels, top row first.                                                  *)

H_DESDE == 10
H_HASTA == 50

\* for h in range(10, 50): if total_pixeles % h == 0: ... break
RECURSIVE BuscarAlto(_, _)
BuscarAlto(total_pixeles, h) ==
    IF h >= H_HASTA THEN 0
    ELSE IF total_pixeles % h = 0 THEN h
    ELSE BuscarAlto(total_pixeles, h + 1)

\* a variant that searches the heights downwards
RECURSIVE BuscarAltoDesc(_, _)
BuscarAltoDesc(total_pixeles, h) ==
    IF h < H_DESDE THEN 0
    ELSE IF total_pixeles % h = 0 THEN h
    ELSE BuscarAltoDesc(total_pixeles, h - 1)

PrimerAltoDesc(total_pixeles) == BuscarAltoDesc(total_pixeles, H_HASTA - 1)

\* a variant whose search goes on beyond H_HASTA
RECURSIVE BuscarAltoHasta(_, _, _)
BuscarAltoHasta(total_pixeles, h, tope) ==
    IF h >= tope THEN 0
    ELSE IF total_pixeles % h = 0 THEN h
    ELSE BuscarAltoHasta(total_pixeles, h + 1, tope)

PrimerAltoAmplio(total_pixeles) == BuscarAltoHasta(total_pixeles, H_DESDE, 2 * H_HASTA)

\* the first height of the search that divides total_pixeles, 0 when none does
PrimerAlto(total_pixeles) == BuscarAlto(total_pixeles, H_DESDE)

\* a variant that fills the grid column by column
ReshapePorColumnas(datos_, alto_, ancho_) ==
    IF alto_ * ancho_ # Len(datos_) THEN Raise("ValueError")
    ELSE Ok([r \in 1..alto_ |-> [c \in 1..ancho_ |-> datos_[(c - 1) * alto_ + r]]])

\* datos.reshape((alto, ancho)): rows of ancho consecutive elements
Reshape(datos_, alto_, ancho_) ==
    IF alto_ * ancho_ # Len(datos_) THEN Raise("ValueError")
    ELSE Ok([r \in 1..alto_ |-> SubSeq(datos_, (r - 1) * ancho_ + 1, r * ancho_)])

\* Image.fromarray(imagen_array, mode='L')
FromArray(filas, alto_, ancho_) == [ancho |-> ancho_, alto |-> alto_, pix |-> filas]

\* a variant that maps an output pixel by its far edge instead of its centre
ResizeSinCentro(imagen, nuevo_ancho, nuevo_alto) ==
    LET fila(y) == LET k == (y * imagen.alto) \div nuevo_alto + 1
                   IN IF k > imagen.alto THEN imagen.alto ELSE k
        columna(x) == LET k == (x * imagen.ancho) \div nuevo_ancho + 1
                      IN IF k > imagen.ancho THEN imagen.ancho ELSE k
    IN [ancho |-> nuevo_ancho, alto |-> nuevo_alto,
        pix |-> [y \in 1..nuevo_alto |-> [x \in 1..nuevo_ancho |->
                    imagen.pix[fila(y)][columna(x)]]]]

\* imagen.resize((nuevo_ancho, nuevo_alto), Image.NEAREST): an output pixel takes
\* the source pixel under its centre
Resize(imagen, nuevo_ancho, nuevo_alto) ==
    [ancho |-> nuevo_ancho, alto |-> nuevo_alto,
     pix |-> [y \in 1..nuevo_alto |-> [x \in 1..nuevo_ancho |->
                 imagen.pix[((2 * y - 1) * imagen.alto) \div (2 * nuevo_alto) + 1]
                           [((2 * x - 1) * imagen.ancho) \div (2 * nuevo_ancho) + 1]]]]

\* What array_a_imagen can leave behind: the dimensions, whether the search ran,
\* the grid and the value returned.  Pillow versions differ on an image with no
\* pixels (it is built, or the call raises), so both results are possible there.
array_a_imagen(ancho_, alto_, datos_, escalar_) ==
    LET busca == Len(datos_) # ancho_ * alto_
        h == IF busca THEN PrimerAlto(Len(datos_)) ELSE 0
        a2 == IF h # 0 THEN h ELSE alto_
        w2 == IF h # 0 THEN Len(datos_) \div h ELSE ancho_
        grid == Reshape(datos_, a2, w2)
    IN IF grid.tipo # "ok"
       THEN {[ancho |-> w2, alto |-> a2, ajuste |-> busca, imagen_array |-> None,
              retorno |-> None]}
       ELSE LET imagen == FromArray(grid.val, a2, w2)
                final == IF escalar_ > 1
                         THEN Resize(imagen, w2 * escalar_, a2 * escalar_)
                         ELSE imagen
                hecho == [ancho |-> w2, alto |-> a2, ajuste |-> busca,
                          imagen_array |-> grid, retorno |-> Ok(final)]
            IN IF w2 * a2 = 0
               THEN {hecho, [hecho EXCEPT !.retorno = None]}
               ELSE {hecho}

----------------------------------------------------------------------------
(* capturar_datos_csv as one call over the lines a capture gets to read    *)
(* (up to the end marker, or up to the expiry of the wait).                *)

RECURSIVE CapturarDesde(_, _, _, _)
CapturarDesde(flujo, i, capturando_, datos_csv_) ==
    IF i > Len(flujo) THEN RetornoCaptura(datos_csv_)
    ELSE LET linea == Strip(flujo[i]) IN
         IF linea = <<>> THEN CapturarDesde(flujo, i + 1, capturando_, datos_csv_)
         ELSE LET r == ProcesarLinea(capturando_, datos_csv_, linea) IN
              IF r.fin THEN RetornoCaptura(r.datos_csv)
              ELSE CapturarDesde(flujo, i + 1, r.capturando, r.datos_csv)

capturar_datos_csv(flujo) == CapturarDesde(flujo, 1, FALSE, <<>>)

----------------------------------------------------------------------------
(* enviar_a_flespi: what one call adds to the counters and returns.        *)
(* publicacion is what mqtt_client.publish does: "exito" (rc is             *)
(* MQTT_ERR_SUCCESS), "rc_error" (another rc) or "excepcion" (it raises);   *)
(* result is "ninguno" when publish was not called.                        *)

\* what the try block does once the connection test has passed
Publicar(anomalia_, publicacion) ==
    IF publicacion = "exito"
    THEN [total |-> 1,
          humo |-> IF anomalia_ = "humo" THEN 1 ELSE 0,
          normal |-> IF anomalia_ = "humo" THEN 0 ELSE 1,
          errores |-> 0, publicados |-> 1, result |-> publicacion,
          retorno |-> Ok(TRUE)]
    ELSE [total |-> 0, humo |-> 0, normal |-> 0, errores |-> 1,
          publicados |-> IF publicacion = "rc_error" THEN 1 ELSE 0,
          result |-> publicacion, retorno |-> Ok(FALSE)]

\* a variant that forgets envios_normal on a send without anomaly
enviar_a_flespi_sin_normal(conectado, anomalia_, publicacion) ==
    IF ~conectado
    THEN [total |-> 0, humo |-> 0, normal |-> 0, errores |-> 1, publicados |-> 0,
          result |-> "ninguno", retorno |-> Ok(FALSE)]
    ELSE [Publicar(anomalia_, publicacion) EXCEPT !.normal = 0]

\* a variant without the connection test
enviar_a_flespi_sin_guardia(conectado, anomalia_, publicacion) ==
    Publicar(anomalia_, publicacion)

\* a variant that counts the send before it looks at the result code
enviar_a_flespi_cuenta_antes(conectado, anomalia_, publicacion) ==
    IF ~conectado
    THEN [total |-> 0, humo |-> 0, normal |-> 0, errores |-> 1, publicados |-> 0,
          result |-> "ninguno", retorno |-> Ok(FALSE)]
    ELSE IF publicacion = "rc_error"
    THEN [Publicar(anomalia_, publicacion) EXCEPT !.total = 1]
    ELSE Publicar(anomalia_, publicacion)

enviar_a_flespi(conectado, anomalia_, publicacion) ==
    IF ~conectado
    THEN [total |-> 0, humo |-> 0, normal |-> 0, errores |-> 1, publicados |-> 0,
          result |-> "ninguno", retorno |-> Ok(FALSE)]
    ELSE Publicar(anomalia_, publicacion)

----------------------------------------------------------------------------
(* Bounds and input sets.                                                  *)

MaxPixeles == 3

\* Characters plus line breaks in one CSV text.
MaxTexto == 6

\* The characters a CSV text is written from: digits, the separator, a blank,
\* a letter and the comment mark.
Trozos == {<<"1">>, <<"2">>, <<",">>, <<" ">>, <<"x">>, <<"#">>}

\* Non-empty lines read in one capture.
MaxLecturas == 5

\* The lines the serial port delivers, before leer_linea strips them.
LineasSerial ==
    { <<"n", "o", "i", "s", "e">>,
      TRES_IGUALES,
      <<"1", ",", "2">>,
      <<" ", "3", ",", "4">>,
      <<"#", "5", ",", "6">>,
      INICIO_DATOS_CSV \o <<",", "7">>,
      TRES_IGUALES \o <<" ">> \o FIN_DATOS_CSV \o <<" ">> \o TRES_IGUALES,
      FIN_DATOS_CSV,
      COPIA_ESTOS_DATOS }

\* Longest flat array given to array_a_imagen, and largest scale factor.
MaxLongitud == 400
MaxEscalar == 2

\* The dimensions a converter is constructed with: the defaults and a small grid.
Configuraciones == {<<22, 18>>, <<4, 3>>}

\* A flat uint8 array of n pixels whose neighbours differ.
Patron(n) == [i \in 1..n |-> (7 * i) % 256]

\* Capture cycles of one monitoring run.
MaxCapturas == 3

\* What the serial port delivers during one capture of the monitoring loop.
FlujosMonitoreo ==
    { <<>>,
      << TRES_IGUALES, <<"1", ",", "2">>, <<" ", "3", ",", "4">>, FIN_DATOS_CSV >>,
      << TRES_IGUALES, <<"1", ",", "2">> >>,
      << INICIO_DATOS_CSV, <<"9", "0", ",", "2", "0", "0">>, COPIA_ESTOS_DATOS >>,
      << TRES_IGUALES, <<",">>, FIN_DATOS_CSV >>,
      << TRES_IGUALES, <<"x", ",", "1">>, FIN_DATOS_CSV >> }

\* Seconds of flight of one run of the drone simulator.
MaxVuelo == 11

RECURSIVE Costo(_)
Costo(texto) == IF texto = <<>> THEN 0 ELSE 1 + Len(Head(texto)) + Costo(Tail(texto))

\* Samples around the thresholds (means 60 and 80, ranges 20 and 25).
Muestras == {0, 40, 50, 59, 60, 61, 64, 65, 70, 79, 80, 81, 85, 89, 255}

SeqHasta(S, n) == UNION {[1..k -> S] : k \in 0..n}

\* Every array of at most MaxPixeles samples, and every single sample 0..255.
Arreglos == SeqHasta(Muestras, MaxPixeles) \cup {<<p>> : p \in 0..255}

----------------------------------------------------------------------------
(* Idle values of the parts of the state an operation does not use.        *)

MqttInicial ==
    /\ is_connected_mqtt = FALSE
    /\ is_connected_arduino = FALSE
    /\ total_envios = 0
    /\ envios_humo = 0
    /\ envios_normal = 0
    /\ errores = 0
    /\ contador = 0
    /\ publicados = 0
    /\ result = "ninguno"
    /\ loop_activo = FALSE
    /\ puerto_abierto = FALSE

CapturaInicial ==
    /\ leidas = <<>>
    /\ capturando = FALSE
    /\ datos_csv = <<>>
    /\ modo = "datos"
    /\ salida = "ninguna"

ImagenInicial ==
    /\ configurado = <<22, 18>>
    /\ ancho = 22
    /\ alto = 18
    /\ datos = <<>>
    /\ escalar = 10
    /\ ajuste = FALSE
    /\ imagen_array = None

DronInicial ==
    /\ connected = FALSE
    /\ reading_count = 0
    /\ anomaly_type = 0
    /\ gps_loss_count = 0
    /\ flight_time = 0

----------------------------------------------------------------------------
(* The classifier applied to every bounded pixel array.                    *)

InitClasif ==
    /\ pc = "clasificar"
    /\ MqttInicial
    /\ CapturaInicial
    /\ ImagenInicial
    /\ DronInicial
    /\ retorno = None
    /\ lineas = <<>>
    /\ datos_imagen \in Arreglos
    /\ anomalia = None
    /\ veredictos = {}

Clasificar ==
    /\ pc = "clasificar"
    /\ anomalia' = generar_anomalia(datos_imagen)
    /\ veredictos' = veredictos \cup {<<datos_imagen, generar_anomalia(datos_imagen)>>}
    /\ pc' = "clasificado"
    /\ UNCHANGED <<varsMqtt, varsCaptura, varsImagen, varsDron, retorno, lineas, datos_imagen>>

NextClasif == Clasificar

SpecClasif == InitClasif /\ [][NextClasif]_vars

----------------------------------------------------------------------------
(* Claims about generar_anomalia.                                          *)

\* The mean in hundredths, rounded down: mean < k exactly when MediaX100 < 100*k.
MediaX100(a) == (100 * Sum(a)) \div Len(a)
Rango(a) == Max(a) - Min(a)
Clasificado == pc = "clasificado"

\* C1: for a non-empty array the verdict is "humo" iff (mean < 60 and range < 25)
\* or (mean < 80 and range < 20); otherwise it is "normal".
C1_HumoSiiUmbrales ==
    (Clasificado /\ datos_imagen # <<>>) =>
        LET humo == \/ (MediaX100(datos_imagen) < 6000 /\ Rango(datos_imagen) < 25)
                    \/ (MediaX100(datos_imagen) < 8000 /\ Rango(datos_imagen) < 20)
        IN /\ humo => anomalia = Ok("humo")
           /\ ~humo => anomalia = Ok("normal")

C1_Witness ==
    /\ Clasificado
    /\ datos_imagen = <<70, 89>>
    /\ anomalia = Ok("humo")

\* C2 as stated: a mean of exactly 60 or 80, or a range of exactly 20 or 25, never
\* gives "humo".
C2_Original ==
    (Clasificado /\ datos_imagen # <<>>
       /\ (\/ Sum(datos_imagen) = 60 * Len(datos_imagen)
           \/ Sum(datos_imagen) = 80 * Len(datos_imagen)
           \/ Rango(datos_imagen) = 20
           \/ Rango(datos_imagen) = 25))
    => anomalia # Ok("humo")

\* C2 amended: a mean of exactly 80 or a range of exactly 25 never gives "humo";
\* a mean of exactly 60 gives "humo" exactly when the range is below 20, and a
\* range of exactly 20 gives "humo" exactly when the mean is below 60.
C2_Fronteras ==
    (Clasificado /\ datos_imagen # <<>>) =>
        /\ (Sum(datos_imagen) = 80 * Len(datos_imagen)) => anomalia = Ok("normal")
        /\ (Rango(datos_imagen) = 25) => anomalia = Ok("normal")
        /\ (Sum(datos_imagen) = 60 * Len(datos_imagen)) =>
               (anomalia = Ok("humo") <=> Rango(datos_imagen) < 20)
        /\ (Rango(datos_imagen) = 20) =>
               (anomalia = Ok("humo") <=> MediaX100(datos_imagen) < 6000)

C2_Witness ==
    /\ Clasificado
    /\ datos_imagen = <<40, 60>>
    /\ anomalia = Ok("humo")

\* C3: the empty array is classified "normal", and the call raises nothing.
C3_VacioNormal ==
    (Clasificado /\ datos_imagen = <<>>) => anomalia = Ok("normal")

C3_Witness ==
    /\ Clasificado
    /\ datos_imagen = <<>>
    /\ anomalia.tipo = "ok"

----------------------------------------------------------------------------
(* The CSV extractors applied to every bounded text.  The text is written  *)
(* piece by piece; either extractor may then be applied to it.             *)

InitCsv ==
    /\ pc = "escribir"
    /\ MqttInicial
    /\ CapturaInicial
    /\ ImagenInicial
    /\ DronInicial
    /\ retorno = None
    /\ lineas = <<>>
    /\ datos_imagen = <<>>
    /\ anomalia = None
    /\ veredictos = {}

varsNoCsv == <<varsMqtt, varsCaptura, varsImagen, varsDron, datos_imagen, anomalia, veredictos>>

NuevaLinea ==
    /\ pc = "escribir"
    /\ Costo(lineas) < MaxTexto
    /\ lineas' = Append(lineas, <<>>)
    /\ UNCHANGED <<pc, retorno, varsNoCsv>>

Escribir(trozo) ==
    /\ pc = "escribir"
    /\ lineas # <<>>
    /\ Costo(lineas) < MaxTexto
    /\ lineas' = [lineas EXCEPT ![Len(lineas)] = @ \o trozo]
    /\ UNCHANGED <<pc, retorno, varsNoCsv>>

ConvertirCsv ==
    /\ pc = "escribir"
    /\ retorno' = convertir_csv_a_array(lineas)
    /\ pc' = "convertido"
    /\ UNCHANGED <<lineas, varsNoCsv>>

LeerCsv ==
    /\ pc = "escribir"
    /\ retorno' \in csv_a_array(lineas)
    /\ pc' = "leido"
    /\ UNCHANGED <<lineas, varsNoCsv>>

NextCsv ==
    \/ NuevaLinea
    \/ \E trozo \in Trozos : Escribir(trozo)
    \/ ConvertirCsv
    \/ LeerCsv

SpecCsv == InitCsv /\ [][NextCsv]_vars

----------------------------------------------------------------------------
(* Claims about the CSV extractors.                                        *)

\* A well-formed CSV line: decimal integers separated by single commas.
BienFormada(l) ==
    /\ l # <<>>
    /\ \A i \in 1..Len(l) : l[i] \in Digitos \cup {","}
    /\ l[1] # ","
    /\ l[Len(l)] # ","
    /\ \A i \in 1..(Len(l) - 1) : ~(l[i] = "," /\ l[i + 1] = ",")

\* The integers of a well-formed line, read in one left-to-right scan.
RECURSIVE Escanear(_, _, _, _)
Escanear(l, i, acc, out) ==
    IF i > Len(l) THEN Append(out, acc)
    ELSE IF l[i] = "," THEN Escanear(l, i + 1, 0, Append(out, acc))
    ELSE Escanear(l, i + 1, 10 * acc + ValorDigito(l[i]), out)

RECURSIVE EscanearTodas(_)
EscanearTodas(texto) ==
    IF texto = <<>> THEN <<>>
    ELSE Escanear(Head(texto), 1, 0, <<>>) \o EscanearTodas(Tail(texto))

\* C5: on well-formed lines convertir_csv_a_array returns the integers of all
\* lines, in line order and left to right within a line, nothing dropped,
\* duplicated or reordered.
C5_Aplanado ==
    (pc = "convertido" /\ \A i \in 1..Len(lineas) : BienFormada(lineas[i]))
    => retorno = Ok(EscanearTodas(lineas))

C5_Witness ==
    /\ pc = "convertido"
    /\ lineas = << <<"2", ",", "1">>, <<"1">> >>
    /\ retorno = Ok(<<2, 1, 1>>)

\* A token that reads as an integer: blanks, an optional sign, digits, blanks.
EsEntero(t) ==
    \E a \in 1..Len(t) : \E b \in a..Len(t) :
        /\ \A i \in 1..(a - 1) : t[i] \in Espacios
        /\ \A i \in (b + 1)..Len(t) : t[i] \in Espacios
        /\ \A i \in (a + 1)..b : t[i] \in Digitos
        /\ t[a] \in Digitos \cup (IF a < b THEN {"+", "-"} ELSE {})

EnBlanco(t) == \A i \in 1..Len(t) : t[i] \in Espacios

Tokens(l) == LET campos == Split(l, ",") IN {campos[i] : i \in 1..Len(campos)}

EsComentario(l) == l # <<>> /\ l[1] = "#"

FalloTotal ==
    /\ pc = "convertido" => retorno = Raise("ValueError")
    /\ pc = "leido" => retorno = None

\* C6 as stated: any token of any line that is not an integer makes the
\* extraction fail as a whole.
C6_Original ==
    (pc \in {"convertido", "leido"}
       /\ \E i \in 1..Len(lineas) : \E t \in Tokens(lineas[i]) : ~EsEntero(t))
    => FalloTotal

\* C6 amended: a token that is not blank and is not an integer (for csv_a_array:
\* in a line that is neither empty nor a comment) makes the extraction fail as a
\* whole, with no partial array; blank tokens are skipped.
C6_FalloSinParcial ==
    /\ (pc = "convertido"
          /\ \E i \in 1..Len(lineas) : \E t \in Tokens(lineas[i]) :
                 ~EnBlanco(t) /\ ~EsEntero(t))
       => retorno = Raise("ValueError")
    /\ (pc = "leido"
          /\ \E i \in 1..Len(lineas) :
                 /\ ~EsComentario(lineas[i])
                 /\ \E t \in Tokens(lineas[i]) : ~EnBlanco(t) /\ ~EsEntero(t))
       => retorno = None

C6_Witness ==
    /\ pc = "convertido"
    /\ lineas = << <<"1", ",", "2">>, <<"x">> >>
    /\ retorno = Raise("ValueError")

C6_WitnessLeido ==
    /\ pc = "leido"
    /\ lineas = << <<"1", ",", "2">>, <<"x">> >>
    /\ retorno = None

----------------------------------------------------------------------------
(* One capture, line by line: capturar_datos_csv (modo "datos", with the   *)
(* bounded wait) or capturar_imagen_csv (modo "imagen", until interrupted).*)

InitCaptura ==
    /\ pc = "inicio"
    /\ is_connected_mqtt = FALSE
    /\ is_connected_arduino = TRUE
    /\ total_envios = 0
    /\ envios_humo = 0
    /\ envios_normal = 0
    /\ errores = 0
    /\ contador = 0
    /\ publicados = 0
    /\ result = "ninguno"
    /\ loop_activo = FALSE
    /\ puerto_abierto = TRUE
    /\ leidas = <<>>
    /\ capturando = FALSE
    /\ datos_csv = <<>>
    /\ modo \in {"datos", "imagen"}
    /\ salida = "ninguna"
    /\ ImagenInicial
    /\ DronInicial
    /\ retorno = None
    /\ lineas = <<>>
    /\ datos_imagen = <<>>
    /\ anomalia = None
    /\ veredictos = {}

varsNoCaptura == <<varsMqtt, varsImagen, varsDron, lineas, datos_imagen, anomalia, veredictos>>

\* enviar_comando('3'): capturar_datos_csv gives up when the write fails,
\* capturar_imagen_csv goes on to read.
EnviarComando(escrito) ==
    /\ pc = "inicio"
    /\ IF escrito \/ modo = "imagen"
       THEN /\ pc' = "bucle"
            /\ UNCHANGED <<salida, retorno>>
       ELSE /\ pc' = "retornado"
            /\ salida' = "comando"
            /\ retorno' = None
    /\ UNCHANGED <<leidas, capturando, datos_csv, modo, varsNoCaptura>>

\* one pass of the loop in which leer_linea returns a non-empty line
LeerLinea(cruda) ==
    /\ pc = "bucle"
    /\ Len(leidas) < MaxLecturas
    /\ LET linea == Strip(cruda)
           r == ProcesarLinea(capturando, datos_csv, linea)
       IN /\ linea # <<>>
          /\ leidas' = Append(leidas, linea)
          /\ capturando' = r.capturando
          /\ datos_csv' = r.datos_csv
          /\ IF r.fin
             THEN /\ pc' = "retornado"
                  /\ salida' = "marcador"
                  /\ retorno' = RetornoCaptura(r.datos_csv)
             ELSE UNCHANGED <<pc, salida, retorno>>
    /\ UNCHANGED <<modo, varsNoCaptura>>

\* capturar_datos_csv: time.time() < timeout is false at the loop test
Expirar ==
    /\ pc = "bucle"
    /\ modo = "datos"
    /\ pc' = "retornado"
    /\ salida' = "timeout"
    /\ retorno' = RetornoCaptura(datos_csv)
    /\ UNCHANGED <<leidas, capturando, datos_csv, modo, varsNoCaptura>>

\* Ctrl+C in the loop: capturar_imagen_csv catches it and saves what it has,
\* capturar_datos_csv lets it propagate to its caller.
Interrumpir ==
    /\ pc = "bucle"
    /\ pc' = "retornado"
    /\ salida' = "interrupcion"
    /\ retorno' = IF modo = "imagen" THEN RetornoCaptura(datos_csv)
                  ELSE Raise("KeyboardInterrupt")
    /\ UNCHANGED <<leidas, capturando, datos_csv, modo, varsNoCaptura>>

NextCaptura ==
    \/ \E escrito \in BOOLEAN : EnviarComando(escrito)
    \/ \E cruda \in LineasSerial : LeerLinea(cruda)
    \/ Expirar
    \/ Interrumpir

SpecCaptura == InitCaptura /\ [][NextCaptura]_vars

\* What the running script guarantees by itself: the command is sent, and the
\* clock of capturar_datos_csv passes its timeout.  Neither a line from the
\* device nor a Ctrl+C from the operator is guaranteed to come.
SpecCapturaJusta ==
    /\ SpecCaptura
    /\ WF_vars(\E escrito \in BOOLEAN : EnviarComando(escrito))
    /\ WF_vars(Expirar)

----------------------------------------------------------------------------
(* Claims about the capture loop.                                          *)

\* the elements of s whose index satisfies P, in order
RECURSIVE Seleccion(_, _, _)
Seleccion(s, I, i) ==
    IF i > Len(s) THEN <<>>
    ELSE (IF i \in I THEN <<s[i]>> ELSE <<>>) \o Seleccion(s, I, i + 1)

\* the line the capture stopped at, if it stopped at an end marker
EsLineaFinal(i) == salida = "marcador" /\ i = Len(leidas)

EntreMarcadores(i) ==
    /\ \E j \in 1..(i - 1) : EsInicio(leidas[j])
    /\ ~EsLineaFinal(i)
    /\ \E k \in 1..Len(leidas[i]) : leidas[i][k] = ","
    /\ leidas[i][1] # "#"

C8_TimeoutSinDatos ==
    (pc = "retornado" /\ modo = "datos" /\ salida = "timeout") => retorno = None

\* C17: every line read that contains an end marker ("FIN DATOS CSV" or "Copia
\* estos datos") is recognized as the end marker: the loop stops at that line and
\* no later line is accepted, also when the line contains "===" or another
\* start marker.
C17_FinReconocido ==
    \A i \in 1..Len(leidas) :
        EsFin(leidas[i]) => (i = Len(leidas) /\ pc = "retornado" /\ salida = "marcador")

\* C18: every capture, capturar_datos_csv and capturar_imagen_csv alike, leaves
\* its read loop by itself after a bounded wait, whatever the stream delivers
\* and without an operator interrupt.
C18_CapturaTermina == <>(pc = "retornado")

----------------------------------------------------------------------------
(* One conversion of a flat array by a CSVtoImageConverter.                *)

InitImagen ==
    /\ pc = "convertir_imagen"
    /\ MqttInicial
    /\ CapturaInicial
    /\ configurado \in Configuraciones
    /\ ancho = configurado[1]
    /\ alto = configurado[2]
    /\ datos \in {Patron(n) : n \in 0..MaxLongitud}
    /\ escalar \in 0..MaxEscalar
    /\ ajuste = FALSE
    /\ imagen_array = None
    /\ DronInicial
    /\ retorno = None
    /\ lineas = <<>>
    /\ datos_imagen = <<>>
    /\ anomalia = None
    /\ veredictos = {}

ArrayAImagen ==
    /\ pc = "convertir_imagen"
    /\ \E r \in array_a_imagen(ancho, alto, datos, escalar) :
          /\ ancho' = r.ancho
          /\ alto' = r.alto
          /\ ajuste' = r.ajuste
          /\ imagen_array' = r.imagen_array
          /\ retorno' = r.retorno
    /\ pc' = "imagen_hecha"
    /\ UNCHANGED <<varsMqtt, varsCaptura, configurado, datos, escalar, lineas,
                   datos_imagen, anomalia, veredictos, varsDron>>

NextImagen == ArrayAImagen

SpecImagen == InitImagen /\ [][NextImagen]_vars

----------------------------------------------------------------------------
(* Claims about array_a_imagen.                                            *)

\* C9: when the array length equals the configured ancho*alto, the array is
\* reshaped row-major, grid[r][c] = datos[r*ancho + c] counting from 0, into alto
\* rows of ancho columns; the search does not run and ancho, alto are unchanged.
C9_ReshapeDirecto ==
    (pc = "imagen_hecha" /\ Len(datos) = configurado[1] * configurado[2]) =>
        /\ ~ajuste
        /\ ancho = configurado[1]
        /\ alto = configurado[2]
        /\ imagen_array.tipo = "ok"
        /\ DOMAIN imagen_array.val = 1..alto
        /\ \A r \in 0..(alto - 1) :
              /\ DOMAIN imagen_array.val[r + 1] = 1..ancho
              /\ \A c \in 0..(ancho - 1) :
                     imagen_array.val[r + 1][c + 1] = datos[r * ancho + c + 1]

C9_Witness ==
    /\ pc = "imagen_hecha"
    /\ configurado = <<22, 18>>
    /\ Len(datos) = 396
    /\ ~ajuste
    /\ imagen_array.tipo = "ok"
    /\ retorno.tipo = "ok"

\* C10 as stated: 400 pixels given to a 22x18 converter run the search, which
\* selects height 20 and width 20.
C10_Original ==
    (pc = "imagen_hecha" /\ configurado = <<22, 18>> /\ Len(datos) = 400) =>
        (ajuste /\ alto = 20 /\ ancho = 20)

\* C10 amended: 400 pixels given to a 22x18 converter run the search, which
\* selects height 10 (the first height from 10 up that divides 400) and width 40.
C10_Busqueda400 ==
    (pc = "imagen_hecha" /\ configurado = <<22, 18>> /\ Len(datos) = 400) =>
        (ajuste /\ alto = 10 /\ ancho = 40)

C10_Witness ==
    /\ pc = "imagen_hecha"
    /\ configurado = <<22, 18>>
    /\ Len(datos) = 400
    /\ ajuste
    /\ alto = 10
    /\ ancho = 40
    /\ retorno.tipo = "ok"

\* the smallest height from 10 up that divides n evenly (n itself when n >= 10)
MenorAlto(n) ==
    IF n = 0 THEN H_DESDE
    ELSE CHOOSE h \in H_DESDE..n : n % h = 0 /\ \A k \in H_DESDE..(h - 1) : n % k # 0

Desajuste == pc = "imagen_hecha" /\ Len(datos) # configurado[1] * configurado[2]

C12_BloquesUniformes ==
    (pc = "imagen_hecha" /\ retorno.tipo = "ok") =>
        IF escalar > 1
        THEN /\ retorno.val.ancho = escalar * ancho
             /\ retorno.val.alto = escalar * alto
             /\ \A Y \in 0..(escalar * alto - 1) : \A X \in 0..(escalar * ancho - 1) :
                    retorno.val.pix[Y + 1][X + 1] =
                        imagen_array.val[(Y \div escalar) + 1][(X \div escalar) + 1]
        ELSE /\ retorno.val.ancho = ancho
             /\ retorno.val.alto = alto
             /\ retorno.val.pix = imagen_array.val

C12_Witness ==
    /\ pc = "imagen_hecha"
    /\ configurado = <<4, 3>>
    /\ Len(datos) = 12
    /\ escalar = 2
    /\ retorno.tipo = "ok"
    /\ retorno.val.ancho = 8
    /\ retorno.val.alto = 6
    /\ retorno.val.pix[1] = <<7, 7, 14, 14, 21, 21, 28, 28>>
    /\ retorno.val.pix[2] = retorno.val.pix[1]
    /\ retorno.val.pix[3] = <<35, 35, 42, 42, 49, 49, 56, 56>>

\* C15: a shape mismatch is never fatal: for every non-empty array whose length
\* differs from the configured ancho*alto, array_a_imagen recovers through the
\* dimension search and returns an image.
C15_DesajusteRecuperado ==
    (Desajuste /\ datos # <<>>) => retorno.tipo = "ok"

----------------------------------------------------------------------------
(* main() of arduino_detection.py: connect, then the monitoring loop, with *)
(* the MQTT callbacks running on the client's network thread.              *)

Init ==
    /\ pc = "conectar_mqtt"
    /\ MqttInicial
    /\ CapturaInicial
    /\ ImagenInicial
    /\ DronInicial
    /\ retorno = None
    /\ lineas = <<>>
    /\ datos_imagen = <<>>
    /\ anomalia = None
    /\ veredictos = {}

varsContadores == <<total_envios, envios_humo, envios_normal, errores, publicados,
                    result>>
varsDatos == <<leidas, capturando, datos_csv, modo, salida, lineas, datos_imagen,
               anomalia, veredictos, retorno>>

\* on_mqtt_connect(rc)
OnMqttConnect(rc) ==
    /\ loop_activo
    /\ is_connected_mqtt' = (rc = 0)
    /\ UNCHANGED <<pc, is_connected_arduino, varsContadores, contador, loop_activo,
                   puerto_abierto, varsDatos, varsImagen, varsDron>>

\* on_mqtt_disconnect
OnMqttDisconnect ==
    /\ loop_activo
    /\ is_connected_mqtt' = FALSE
    /\ UNCHANGED <<pc, is_connected_arduino, varsContadores, contador, loop_activo,
                   puerto_abierto, varsDatos, varsImagen, varsDron>>

\* conectar_mqtt: connect() raises, or loop_start() and the wait begins
ConectarMqtt(conecta) ==
    /\ pc = "conectar_mqtt"
    /\ IF conecta
       THEN pc' = "esperar_mqtt" /\ loop_activo' = TRUE
       ELSE pc' = "terminado" /\ UNCHANGED loop_activo
    /\ UNCHANGED <<is_connected_mqtt, is_connected_arduino, varsContadores, contador,
                   puerto_abierto, varsDatos, varsImagen, varsDron>>

\* the wait loop of conectar_mqtt ends: connected, or 5 s have passed
FinEsperaMqtt ==
    /\ pc = "esperar_mqtt"
    /\ pc' = "verificar_mqtt"
    /\ UNCHANGED <<varsMqtt, varsDatos, varsImagen, varsDron>>

\* if self.is_connected_mqtt: return True, else return False and main returns
VerificarMqtt ==
    /\ pc = "verificar_mqtt"
    /\ pc' = IF is_connected_mqtt THEN "conectar_arduino" ELSE "terminado"
    /\ UNCHANGED <<varsMqtt, varsDatos, varsImagen, varsDron>>

\* sender.cerrar()
Cerrar ==
    /\ loop_activo' = FALSE
    /\ puerto_abierto' = FALSE

\* conectar_arduino: the port opens, or main closes and returns
ConectarArduino(abre) ==
    /\ pc = "conectar_arduino"
    /\ IF abre
       THEN /\ pc' = "configurar"
            /\ puerto_abierto' = TRUE
            /\ is_connected_arduino' = TRUE
            /\ UNCHANGED loop_activo
       ELSE /\ pc' = "terminado"
            /\ Cerrar
            /\ UNCHANGED is_connected_arduino
    /\ UNCHANGED <<is_connected_mqtt, varsContadores, contador, varsDatos, varsImagen, varsDron>>

\* the two input() calls of main: int(intervalo_str) may raise
Configurar(valido) ==
    /\ pc = "configurar"
    /\ IF valido
       THEN pc' = "capturar" /\ UNCHANGED <<loop_activo, puerto_abierto>>
       ELSE pc' = "terminado" /\ Cerrar
    /\ UNCHANGED <<is_connected_mqtt, is_connected_arduino, varsContadores, contador,
                   varsDatos, varsImagen, varsDron>>

\* contador += 1; datos_csv = self.capturar_datos_csv(); the else branch when
\* nothing was captured
Capturar(flujo) ==
    /\ pc = "capturar"
    /\ contador < MaxCapturas
    /\ contador' = contador + 1
    /\ LET r == capturar_datos_csv(flujo) IN
          IF r.tipo = "ok"
          THEN /\ datos_csv' = r.val
               /\ pc' = "convertir"
               /\ UNCHANGED errores
          ELSE /\ datos_csv' = <<>>
               /\ errores' = errores + 1
               /\ pc' = "esperar"
    /\ UNCHANGED <<is_connected_mqtt, is_connected_arduino, total_envios, envios_humo,
                   envios_normal, publicados, result, loop_activo, puerto_abierto,
                   leidas, capturando, modo, salida, lineas, datos_imagen, anomalia,
                   veredictos, retorno, varsImagen, varsDron>>

\* datos_imagen = self.convertir_csv_a_array(datos_csv); a ValueError leaves
\* iniciar_monitoreo and main closes in its finally
Convertir ==
    /\ pc = "convertir"
    /\ LET r == convertir_csv_a_array(datos_csv) IN
          IF r.tipo = "ok"
          THEN /\ datos_imagen' = r.val
               /\ pc' = "clasificar"
               /\ UNCHANGED <<loop_activo, puerto_abierto, retorno>>
          ELSE /\ retorno' = r
               /\ pc' = "terminado"
               /\ Cerrar
               /\ UNCHANGED datos_imagen
    /\ UNCHANGED <<is_connected_mqtt, is_connected_arduino, varsContadores, contador,
                   leidas, capturando, datos_csv, modo, salida, lineas, anomalia,
                   veredictos, varsImagen, varsDron>>

\* self.enviar_a_flespi(datos_imagen, anomalia)
Enviar(publicacion) ==
    /\ pc = "clasificado"
    /\ LET r == enviar_a_flespi(is_connected_mqtt, anomalia.val, publicacion) IN
          /\ total_envios' = total_envios + r.total
          /\ envios_humo' = envios_humo + r.humo
          /\ envios_normal' = envios_normal + r.normal
          /\ errores' = errores + r.errores
          /\ publicados' = publicados + r.publicados
          /\ result' = r.result
          /\ retorno' = r.retorno
    /\ pc' = "esperar"
    /\ UNCHANGED <<is_connected_mqtt, is_connected_arduino, contador, loop_activo,
                   puerto_abierto, leidas, capturando, datos_csv, modo, salida, lineas,
                   datos_imagen, anomalia, veredictos, varsImagen, varsDron>>

\* time.sleep(tiempo_espera), then the next cycle
Esperar ==
    /\ pc = "esperar"
    /\ pc' = "capturar"
    /\ UNCHANGED <<varsMqtt, varsDatos, varsImagen, varsDron>>

\* Ctrl+C during the configuration or the monitoring: main closes and returns
InterrumpirMonitoreo ==
    /\ pc \in {"configurar", "capturar", "convertir", "clasificar", "clasificado",
               "esperar"}
    /\ pc' = "terminado"
    /\ Cerrar
    /\ UNCHANGED <<is_connected_mqtt, is_connected_arduino, varsContadores, contador,
                   varsDatos, varsImagen, varsDron>>

Next ==
    \/ \E rc \in {0, 5} : OnMqttConnect(rc)
    \/ OnMqttDisconnect
    \/ \E conecta \in BOOLEAN : ConectarMqtt(conecta)
    \/ FinEsperaMqtt
    \/ VerificarMqtt
    \/ \E abre \in BOOLEAN : ConectarArduino(abre)
    \/ \E valido \in BOOLEAN : Configurar(valido)
    \/ \E flujo \in FlujosMonitoreo : Capturar(flujo)
    \/ Convertir
    \/ Clasificar
    \/ \E publicacion \in {"exito", "rc_error", "excepcion"} : Enviar(publicacion)
    \/ Esperar
    \/ InterrumpirMonitoreo

Spec == Init /\ [][Next]_vars

----------------------------------------------------------------------------
(* Claims about the classifier inside the monitoring run.                  *)

----------------------------------------------------------------------------
(* Claims about the monitoring run of arduino_detection.py.                *)

\* the step in which iniciar_monitoreo calls enviar_a_flespi
PasoEnviar == pc = "clasificado" /\ pc' = "esperar"

\* C13: a call to enviar_a_flespi made while is_connected_mqtt is false adds
\* exactly one to errores, leaves total_envios, envios_humo and envios_normal
\* unchanged, hands no message to the MQTT client and returns False, with no retry.
C13_EnvioDesconectado ==
    [][(PasoEnviar /\ ~is_connected_mqtt) =>
          /\ errores' = errores + 1
          /\ UNCHANGED <<total_envios, envios_humo, envios_normal, publicados>>
          /\ result' = "ninguno"
          /\ retorno' = Ok(FALSE)]_vars

C13_Witness ==
    /\ pc = "esperar"
    /\ ~is_connected_mqtt
    /\ contador = 1
    /\ result = "ninguno"
    /\ retorno = Ok(FALSE)
    /\ errores = 1
    /\ total_envios = 0
    /\ publicados = 0

\* C14: a non-integer token in a captured CSV line fails only the current
\* capture: the run of the script does not end on it and the monitoring loop
\* goes on to the next cycle.
C14_ParseoNoTermina ==
    retorno.tipo = "ValueError" => pc # "terminado"

\* C16: whenever main has returned, by whatever path, the MQTT network loop has
\* been stopped and an opened serial port has been closed.
C16_RecursosLiberados ==
    pc = "terminado" => (~loop_activo /\ ~puerto_abierto)

\* C19: every call to enviar_a_flespi adds one to exactly one of total_envios
\* and errores: a successful publish to total_envios, a publish with another
\* result code or one that raises to errores; and a cycle of iniciar_monitoreo
\* makes at most one publish attempt, a failed one is not retried.
C19_UnContadorPorEnvio ==
    /\ [](total_envios + errores <= contador /\ publicados <= contador)
    /\ [][PasoEnviar =>
            /\ (result' = "exito" =>
                   total_envios' = total_envios + 1 /\ errores' = errores)
            /\ (result' # "exito" =>
                   errores' = errores + 1 /\ total_envios' = total_envios)
            /\ publicados' - publicados \in {0, 1}]_vars

C19_Witness ==
    /\ pc = "esperar"
    /\ is_connected_mqtt
    /\ contador = 1
    /\ result = "rc_error"
    /\ retorno = Ok(FALSE)
    /\ errores = 1
    /\ total_envios = 0
    /\ publicados = 1

\* C21: after any sequence of sends, failed captures and MQTT connect and
\* disconnect callbacks, total_envios = envios_humo + envios_normal; none of
\* total_envios, envios_humo, envios_normal, errores ever decreases; and a
\* callback changes only is_connected_mqtt, never a counter.
C21_ContadoresCoherentes ==
    /\ [](total_envios = envios_humo + envios_normal)
    /\ [][/\ total_envios' >= total_envios
          /\ envios_humo' >= envios_humo
          /\ envios_normal' >= envios_normal
          /\ errores' >= errores]_vars
    /\ [][(is_connected_mqtt' # is_connected_mqtt) =>
            UNCHANGED <<total_envios, envios_humo, envios_normal, errores>>]_vars

C21_Witness ==
    /\ ~is_connected_mqtt
    /\ contador = 3
    /\ total_envios = 2
    /\ envios_humo = 1
    /\ envios_normal = 1
    /\ errores = 1
    /\ result = "ninguno"

----------------------------------------------------------------------------
(* intentitobb.py, the drone simulator: main connects and then calls       *)
(* publish_telemetry once a second.  Of a reading, the model keeps the     *)
(* count, the anomaly injected and the GPS losses; the simulated position, *)
(* battery and sensor values are left out.                                 *)

\* a variant that counts the reading before it tests the connection
publish_telemetry_cuenta_antes(connected_, reading_count_, anomaly_type_, gps_loss_count_, aleatorio) ==
    IF ~connected_
    THEN [reading_count |-> reading_count_ + 1, anomaly_type |-> anomaly_type_,
          gps_loss_count |-> gps_loss_count_]
    ELSE LET tipo == IF (reading_count_ + 1) % 5 = 0 THEN aleatorio ELSE 0 IN
         [reading_count |-> reading_count_ + 1, anomaly_type |-> tipo,
          gps_loss_count |-> IF tipo = 2 THEN gps_loss_count_ + 1 ELSE gps_loss_count_]

\* publish_telemetry: aleatorio is what random.randint(1, 3) gives
publish_telemetry(connected_, reading_count_, anomaly_type_, gps_loss_count_, aleatorio) ==
    IF ~connected_
    THEN [reading_count |-> reading_count_, anomaly_type |-> anomaly_type_,
          gps_loss_count |-> gps_loss_count_]
    ELSE LET has_anomaly == (reading_count_ + 1) % 5 = 0
             tipo == IF has_anomaly THEN aleatorio ELSE 0
         IN [reading_count |-> reading_count_ + 1, anomaly_type |-> tipo,
             gps_loss_count |-> IF tipo = 2 THEN gps_loss_count_ + 1
                                ELSE gps_loss_count_]

InitDron ==
    /\ pc = "dron_conectar"
    /\ MqttInicial
    /\ CapturaInicial
    /\ ImagenInicial
    /\ DronInicial
    /\ retorno = None
    /\ lineas = <<>>
    /\ datos_imagen = <<>>
    /\ anomalia = None
    /\ veredictos = {}

varsNoDron == <<is_connected_mqtt, is_connected_arduino, varsContadores, contador,
                puerto_abierto, varsDatos, varsImagen>>

\* on_connect(rc)
OnConnect(rc) ==
    /\ loop_activo
    /\ connected' = (rc = 0)
    /\ UNCHANGED <<pc, loop_activo, reading_count, anomaly_type, gps_loss_count,
                   flight_time, varsNoDron>>

\* on_disconnect
OnDisconnect ==
    /\ loop_activo
    /\ connected' = FALSE
    /\ UNCHANGED <<pc, loop_activo, reading_count, anomaly_type, gps_loss_count,
                   flight_time, varsNoDron>>

\* mqtt_client.connect(...) raises and main returns, or loop_start() and the wait
ConectarDron(conecta) ==
    /\ pc = "dron_conectar"
    /\ IF conecta
       THEN pc' = "dron_esperar" /\ loop_activo' = TRUE
       ELSE pc' = "dron_terminado" /\ UNCHANGED loop_activo
    /\ UNCHANGED <<varsDron, varsNoDron>>

\* the wait loop ends: connected, or 10 s have passed and main returns
FinEsperaDron ==
    /\ pc = "dron_esperar"
    /\ pc' = IF connected THEN "dron_publicar" ELSE "dron_terminado"
    /\ UNCHANGED <<loop_activo, varsDron, varsNoDron>>

\* publish_telemetry()
PublishTelemetry(aleatorio) ==
    /\ pc = "dron_publicar"
    /\ flight_time < MaxVuelo
    /\ LET r == publish_telemetry(connected, reading_count, anomaly_type,
                                  gps_loss_count, aleatorio) IN
          /\ reading_count' = r.reading_count
          /\ anomaly_type' = r.anomaly_type
          /\ gps_loss_count' = r.gps_loss_count
    /\ pc' = "dron_vuelo"
    /\ UNCHANGED <<connected, flight_time, loop_activo, varsNoDron>>

\* flight_time += 1.0; time.sleep(1)
AvanzarVuelo ==
    /\ pc = "dron_vuelo"
    /\ flight_time' = flight_time + 1
    /\ pc' = "dron_publicar"
    /\ UNCHANGED <<connected, reading_count, anomaly_type, gps_loss_count,
                   loop_activo, varsNoDron>>

\* Ctrl+C in the main loop: loop_stop(), disconnect(), break
InterrumpirDron ==
    /\ pc \in {"dron_publicar", "dron_vuelo"}
    /\ pc' = "dron_terminado"
    /\ loop_activo' = FALSE
    /\ UNCHANGED <<varsDron, varsNoDron>>

NextDron ==
    \/ \E rc \in {0, 5} : OnConnect(rc)
    \/ OnDisconnect
    \/ \E conecta \in BOOLEAN : ConectarDron(conecta)
    \/ FinEsperaDron
    \/ \E aleatorio \in 1..3 : PublishTelemetry(aleatorio)
    \/ AvanzarVuelo
    \/ InterrumpirDron

SpecDron == InitDron /\ [][NextDron]_vars

----------------------------------------------------------------------------
(* Claims about the drone simulator.                                       *)

\* the step in which main calls publish_telemetry
PasoTelemetria == pc = "dron_publicar" /\ pc' = "dron_vuelo"

\* C20: the anomaly type of a reading is one of 1..3 exactly when the reading's
\* count is a multiple of 5 and is 0 on every other reading; reading_count goes
\* up by one on each publish_telemetry call made while connected, and a call
\* made while disconnected does not advance it.
C20_AnomaliaCadaCinco ==
    /\ [](IF reading_count > 0 /\ reading_count % 5 = 0
          THEN anomaly_type \in 1..3
          ELSE anomaly_type = 0)
    /\ [][PasoTelemetria =>
            IF connected THEN reading_count' = reading_count + 1
            ELSE UNCHANGED <<reading_count, anomaly_type>>]_vars

C20_Witness ==
    /\ pc = "dron_vuelo"
    /\ reading_count = 10
    /\ flight_time = 10
    /\ anomaly_type = 2
    /\ gps_loss_count = 1

====
